---------------------------- MODULE Spec2Model ----------------------------
(***************************************************************************)
(* CxxSwizzle sample (src/sample/main.cpp): the render worker              *)
(* (renderThread) and the display loop (main) exchanging frames through    *)
(* g_frameHandshakeMutex, m_frameReadyEvent and m_frameReceivedEvent.      *)
(*                                                                         *)
(* Modelled build: the branch without OpenMP (heightStep = 1).             *)
(* SDL condition variables wake a waiter only on SDL_CondSignal or, for    *)
(* the timed wait, on time-out.  Output-only locals of main (frame,        *)
(* lastFPS, timeScale, the clocks) are left out; the wall-clock advance    *)
(* of the local time is a nondeterministic delta.                          *)
(*                                                                         *)
(* Specifications: Spec (main and renderThread, without the pointer        *)
(* events), MouseSpec (with them), FairSpec (Spec fairly scheduled),       *)
(* ArgsSpec (the startup from every argument), SamplerSpec (one call of    *)
(* sampler2D::sample on any sampler and coordinate, reals on a grid of     *)
(* rationals), RowSpec (the row loop of renderThread for any width and     *)
(* lane width; RowFairSpec is the loop that keeps running) and QuantSpec   *)
(* (the conversion of one shaded colour to the three stored bytes).        *)
(***************************************************************************)
EXTENDS Integers, Sequences, FiniteSets, TLC

\* ------------------------------------------------------------------ bounds
\* largest framebuffer / window width and height the events request
MaxW == 1
MaxH == 2
\* the local 'time' of main saturates here
MaxTime == 1

\* texture coordinates and colour channels are multiples of 1/Den; Den is a multiple of 4 so that
\* 0.25, 0.5 and 0.75 are on the grid
GridPerQuarter == 1
\* coordinates range over [-MaxWrap, MaxWrap + 1]
MaxWrap == 2
\* largest width and height of a loaded image
MaxImage == 3

\* largest lane width and largest width of a row
MaxLanes == 4
MaxRowWidth == 8

\* ------------------------------------------------------- program constants
DefaultW == 128
DefaultH == 128

Widths  == 1..MaxW
Heights == 1..MaxH

NoArg  == "none"
BadArg == "unparsable"
\* argv[1] as parsed by 's >> initialResolution': no argument, a text that
\* fails to parse, or two integers
Resolutions == (0..MaxW) \X (-1..MaxH)
Args == {NoArg, BadArg} \cup Resolutions
\* the arguments the runs of Spec start from: one of each outcome of the
\* validation (unparsable, width <= 0, height < 0, accepted)
RunArgs == {BadArg, <<0, MaxH>>, <<MaxW, -1>>, <<MaxW, MaxH>>}

\* a null pointer / an object not yet created
Null == <<>>

VARIABLES
    \* ---- globals (lines 83-85, 196-208)
    sandbox_time,        \* glsl_sandbox::time
    sandbox_mouse,       \* glsl_sandbox::mouse, <<numX, denX, numY, denY>>
    resolution,          \* glsl_sandbox::resolution, <<w, h>> or Null
    g_surface,           \* the framebuffer: <<w, h>> or Null
    mutex,               \* owner of g_frameHandshakeMutex: "free", "main", "worker"
    m_frameReceivedEvent,\* TRUE: the worker blocked in SDL_CondWait has been signalled
    m_frameReadyEvent,   \* TRUE: main blocked in SDL_CondWaitTimeout has been signalled
    g_frameReady,
    g_cancelDraw,
    g_quit,
    \* ---- locals of main
    pcm,                 \* position of main
    initialResolution,
    screen,              \* presentation surface: <<w, h>> or Null
    time,
    mousePosition,       \* <<x, y>>
    pendingResize,
    mousePressed,
    blitNow,
    doFlip,
    exitCode,            \* return value of main, read once pcm = "returned"
    joined,              \* SDL_WaitThread has returned
    \* ---- locals of renderThread
    pcw,                 \* position of the worker
    bmp,                 \* the surface pointer fetched at the start of the frame:
                         \* "unset", "live" or "freed" (its surface was released)
    heightEnd,
    y,
    \* ---- sampler2D::sample (lines 597-682): the sampler's fields, the
    \* argument, the locals and the returned value
    pcs,                 \* position inside sample
    m_wrapMode,          \* "Clamp", "Repeat" or "MirrorRepeat"
    m_image,             \* <<w, h>> of the loaded image, or Null
    coord,               \* <<x, y>> in units of 1/Den
    uv,                  \* <<x, y>> in units of 1/Den
    sampled,             \* the vec4 returned
    \* ---- the row loop of renderThread (lines 273-310)
    pcr,                 \* position inside the row loop
    scalar_count,        \* lane width of the build
    bmp_w,               \* bmp->w
    x,
    ptr,                 \* byte offset of ptr from the start of the row
    stored,              \* byte offsets stored so far, relative to the row
    storeCount,          \* number of stores to each of these offsets
    \* ---- the colour conversion of renderThread (lines 295-309), one lane
    pcq,                 \* position inside the conversion
    gl_FragColor,        \* <<r, g, b>> left by the shader, in units of 1/Den
    color,               \* <<r, g, b>> in units of 1/(2 * Den)
    pixel                \* the three bytes stored through ptr

globals == <<sandbox_time, sandbox_mouse, resolution, g_surface, mutex,
             m_frameReceivedEvent, m_frameReadyEvent,
             g_frameReady, g_cancelDraw, g_quit>>
mainLocals == <<pcm, initialResolution, screen, time, mousePosition,
                pendingResize, mousePressed, blitNow, doFlip, exitCode, joined>>
workerLocals == <<pcw, bmp, heightEnd, y>>
samplerVars == <<pcs, m_wrapMode, m_image, coord, uv, sampled>>
\* the state of the functions the shading calls, untouched by the handshake
rowVars == <<pcr, scalar_count, bmp_w, x, ptr, stored, storeCount>>
quantVars == <<pcq, gl_FragColor, color, pixel>>
shadingVars == <<samplerVars, rowVars, quantVars>>
vars == <<globals, mainLocals, workerLocals, shadingVars>>

Min(a, b) == IF a < b THEN a ELSE b

\* positions of the worker inside the scan loop (lines 244-312)
ScanPcs == {"fetch", "check", "row"}
\* positions of main between the decision to consume and the end of the
\* critical section (lines 511-536)
WindowPcs == {"blit", "applyResize", "publish"}
\* main has returned or the process has died: nothing runs any more
ProcessGone == pcm = "returned" \/ pcw = "crashed"

ProgramInit ==
    /\ sandbox_time = 1
    /\ sandbox_mouse = <<0, 1, 0, 1>>
    /\ resolution = Null
    /\ g_surface = Null
    /\ mutex = "free"
    /\ m_frameReceivedEvent = FALSE
    /\ m_frameReadyEvent = FALSE
    /\ g_frameReady = FALSE
    /\ g_cancelDraw = FALSE
    /\ g_quit = FALSE
    /\ pcm = "parse"
    /\ initialResolution = <<DefaultW, DefaultH>>
    /\ screen = Null
    /\ time = 0
    /\ mousePosition = <<0, 0>>
    /\ pendingResize = FALSE
    /\ mousePressed = FALSE
    /\ blitNow = FALSE
    /\ doFlip = FALSE
    /\ exitCode = 0
    /\ joined = FALSE
    /\ pcw = "notStarted"
    /\ bmp = "unset"
    /\ heightEnd = 0
    /\ y = 0

\* no call of sample in progress: the sampler 'diffuse' of line 92, whose
\* image was not loaded
SamplerIdle ==
    /\ pcs = "idle"
    /\ m_wrapMode = "Repeat"
    /\ m_image = Null
    /\ coord = <<0, 0>>
    /\ uv = <<0, 0>>
    /\ sampled = Null

\* no row in progress; the scalar build
RowIdle ==
    /\ pcr = "idle"
    /\ scalar_count = 1
    /\ bmp_w = 0
    /\ x = 0
    /\ ptr = 0
    /\ stored = {}
    /\ storeCount = <<>>

\* no conversion in progress
QuantIdle ==
    /\ pcq = "idle"
    /\ gl_FragColor = <<0, 0, 0>>
    /\ color = <<0, 0, 0>>
    /\ pixel = <<0, 0, 0>>

Init == ProgramInit /\ SamplerIdle /\ RowIdle /\ QuantIdle

\* ------------------------------------------------------- SDL primitives
\* SDL_CondSignal(m_frameReceivedEvent): wakes the worker if it is blocked in
\* SDL_CondWait, otherwise the signal is lost
SignalFrameReceived(waiterPc, flag) == IF waiterPc = "blocked" THEN TRUE ELSE flag
\* SDL_CondSignal(m_frameReadyEvent): wakes main if it is blocked in
\* SDL_CondWaitTimeout, otherwise the signal is lost
SignalFrameReady(waiterPc, flag) == IF waiterPc = "condWait" THEN TRUE ELSE flag

\* the catch handlers and what follows them: message, SDL_Quit, return 0
Throw ==
    /\ pcm' = "catch"

\* ------------------------------------------------------------ main: startup
\* the validation letting a zero width through
ValidResolution_ZeroWidth(r) == ~(r[1] < 0 \/ r[2] < 0)

\* lines 351-370: parse the argument, validate the resolution
ValidResolution(r) == ~(r[1] <= 0 \/ r[2] < 0)

M_ParseArgsFrom(args) ==
    /\ pcm = "parse"
    /\ ~ProcessGone
    /\ UNCHANGED shadingVars
    /\ \E arg \in args :
         IF arg = BadArg
         THEN /\ pcm' = "returned"
              /\ exitCode' = 1
              /\ UNCHANGED initialResolution
         ELSE LET r == IF arg = NoArg THEN <<DefaultW, DefaultH>> ELSE arg
              IN  /\ initialResolution' = r
                  /\ IF ValidResolution(r)
                     THEN pcm' = "sdlInit" /\ UNCHANGED exitCode
                     ELSE pcm' = "returned" /\ exitCode' = 1
    /\ UNCHANGED <<globals, workerLocals, screen, time, mousePosition,
                   pendingResize, mousePressed, blitNow, doFlip, joined>>

M_ParseArgs == M_ParseArgsFrom(RunArgs)

\* the same lines run on every argument
M_ParseAnyArgs == M_ParseArgsFrom(Args)

\* lines 407-412: SDL_Init, may fail and throw
M_SdlInit ==
    /\ pcm = "sdlInit"
    /\ ~ProcessGone
    /\ UNCHANGED shadingVars
    /\ \E ok \in BOOLEAN : IF ok THEN pcm' = "createScreen" ELSE Throw
    /\ UNCHANGED <<globals, workerLocals, initialResolution, screen, time,
                   mousePosition, pendingResize, mousePressed, blitNow, doFlip,
                   exitCode, joined>>

\* lines 384-391 called from 414: SDL_SetVideoMode, throws when it fails
M_CreateScreen ==
    /\ pcm = "createScreen"
    /\ ~ProcessGone
    /\ UNCHANGED shadingVars
    /\ \E ok \in BOOLEAN :
         IF ok THEN screen' = initialResolution /\ pcm' = "createSurface"
               ELSE screen' = Null /\ Throw
    /\ UNCHANGED <<globals, workerLocals, initialResolution, time,
                   mousePosition, pendingResize, mousePressed, blitNow, doFlip,
                   exitCode, joined>>

\* lines 394-404: g_surface.reset(SDL_CreateRGBSurface(w, h)); the old surface
\* is freed, so a pointer the worker fetched from it dangles
FreedBmp(b) == IF b = "live" THEN "freed" ELSE b
NewSurface(w, h) == <<w, h>>

\* line 415
M_CreateSurface ==
    /\ pcm = "createSurface"
    /\ ~ProcessGone
    /\ UNCHANGED shadingVars
    /\ \E ok \in BOOLEAN :
         IF ok
         THEN /\ g_surface' = NewSurface(initialResolution[1], initialResolution[2])
              /\ resolution' = initialResolution
              /\ pcm' = "createThread"
         ELSE /\ g_surface' = Null
              /\ UNCHANGED resolution
              /\ Throw
    /\ UNCHANGED <<sandbox_time, sandbox_mouse, mutex, m_frameReceivedEvent,
                   m_frameReadyEvent, g_frameReady, g_cancelDraw, g_quit,
                   workerLocals, initialResolution, screen, time, mousePosition,
                   pendingResize, mousePressed, blitNow, doFlip, exitCode, joined>>

\* lines 417-425: locals initialised, SDL_CreateThread(renderThread)
M_CreateThread ==
    /\ pcm = "createThread"
    /\ ~ProcessGone
    /\ UNCHANGED shadingVars
    /\ time' = 0
    /\ mousePosition' = <<0, 0>>
    /\ pendingResize' = FALSE
    /\ mousePressed' = FALSE
    /\ pcw' = "fetch"
    /\ pcm' = "loopTest"
    /\ UNCHANGED <<globals, bmp, heightEnd, y, initialResolution, screen,
                   blitNow, doFlip, exitCode, joined>>

\* --------------------------------------------------------- main: the loop
\* line 431-433: while (!g_quit) { bool blitNow = false;
M_LoopTest ==
    /\ pcm = "loopTest"
    /\ ~ProcessGone
    /\ UNCHANGED shadingVars
    /\ IF g_quit
       THEN pcm' = "join" /\ UNCHANGED blitNow
       ELSE pcm' = "poll" /\ blitNow' = FALSE
    /\ UNCHANGED <<globals, workerLocals, initialResolution, screen, time,
                   mousePosition, pendingResize, mousePressed, doFlip,
                   exitCode, joined>>

\* lines 441-444: SDL_VIDEORESIZE with a size other than the screen's:
\* resizeOrCreateScreen, which throws when SDL_SetVideoMode fails
M_EvResize ==
    /\ pcm = "poll"
    /\ ~ProcessGone
    /\ UNCHANGED shadingVars
    /\ \E w \in Widths, h \in Heights, ok \in BOOLEAN :
         /\ screen = Null \/ w # screen[1] \/ h # screen[2]
         /\ IF ok THEN screen' = <<w, h>> /\ pcm' = "resizeLock"
                  ELSE screen' = Null /\ Throw
    /\ UNCHANGED <<globals, workerLocals, initialResolution, time,
                   mousePosition, pendingResize, mousePressed, blitNow, doFlip,
                   exitCode, joined>>

\* the resize handler also transferring the resolution, at the request
M_EvResizeLocked_SetsResolution ==
    /\ pcm = "resizeLock"
    /\ ~ProcessGone
    /\ UNCHANGED shadingVars
    /\ mutex = "free"
    /\ g_cancelDraw' = TRUE
    /\ pendingResize' = TRUE
    /\ resolution' = screen
    /\ pcm' = "poll"
    /\ UNCHANGED <<sandbox_time, sandbox_mouse, g_surface, mutex,
                   m_frameReceivedEvent, m_frameReadyEvent, g_frameReady, g_quit,
                   workerLocals, initialResolution, screen, time, mousePosition,
                   mousePressed, blitNow, doFlip, exitCode, joined>>

\* lines 445-446: ScopedLock; g_cancelDraw = pendingResize = true
M_EvResizeLocked ==
    /\ pcm = "resizeLock"
    /\ ~ProcessGone
    /\ UNCHANGED shadingVars
    /\ mutex = "free"
    /\ g_cancelDraw' = TRUE
    /\ pendingResize' = TRUE
    /\ pcm' = "poll"
    /\ UNCHANGED <<sandbox_time, sandbox_mouse, resolution, g_surface, mutex,
                   m_frameReceivedEvent, m_frameReadyEvent, g_frameReady, g_quit,
                   workerLocals, initialResolution, screen, time, mousePosition,
                   mousePressed, blitNow, doFlip, exitCode, joined>>

\* lines 449, 461: SDL_QUIT or the escape key has been polled
M_EvQuit ==
    /\ pcm = "poll"
    /\ ~ProcessGone
    /\ UNCHANGED shadingVars
    /\ pcm' = "quitLock"
    /\ UNCHANGED <<globals, workerLocals, initialResolution, screen, time,
                   mousePosition, pendingResize, mousePressed, blitNow, doFlip,
                   exitCode, joined>>

\* lines 451-452, 463-464: ScopedLock; g_quit = g_cancelDraw = true
M_EvQuitLocked ==
    /\ pcm = "quitLock"
    /\ ~ProcessGone
    /\ UNCHANGED shadingVars
    /\ mutex = "free"
    /\ g_quit' = TRUE
    /\ g_cancelDraw' = TRUE
    /\ pcm' = "poll"
    /\ UNCHANGED <<sandbox_time, sandbox_mouse, resolution, g_surface, mutex,
                   m_frameReceivedEvent, m_frameReadyEvent, g_frameReady,
                   workerLocals, initialResolution, screen, time, mousePosition,
                   pendingResize, mousePressed, blitNow, doFlip, exitCode, joined>>

\* lines 458-460: the space key
M_EvSpace ==
    /\ pcm = "poll"
    /\ ~ProcessGone
    /\ UNCHANGED shadingVars
    /\ blitNow' = TRUE
    /\ UNCHANGED <<globals, workerLocals, pcm, initialResolution, screen, time,
                   mousePosition, pendingResize, mousePressed, doFlip,
                   exitCode, joined>>

\* lines 481-482, 487-488: the pointer position, y flipped with the height of
\* the framebuffer
PointerPosition(ex, ey, surface) == <<ex, surface[2] - 1 - ey>>

\* the pointer is inside the window
PointerXs == IF screen = Null THEN {} ELSE 0..(screen[1] - 1)
PointerYs == IF screen = Null THEN {} ELSE 0..(screen[2] - 1)

\* lines 485-489: SDL_MOUSEBUTTONDOWN
M_EvMouseDown ==
    /\ pcm = "poll"
    /\ ~ProcessGone
    /\ UNCHANGED shadingVars
    /\ \E ex \in PointerXs, ey \in PointerYs :
         mousePosition' = PointerPosition(ex, ey, g_surface)
    /\ mousePressed' = TRUE
    /\ UNCHANGED <<globals, workerLocals, pcm, initialResolution, screen, time,
                   pendingResize, blitNow, doFlip, exitCode, joined>>

\* lines 478-484: SDL_MOUSEMOTION
M_EvMouseMotion ==
    /\ pcm = "poll"
    /\ ~ProcessGone
    /\ UNCHANGED shadingVars
    /\ mousePressed
    /\ \E ex \in PointerXs, ey \in PointerYs :
         mousePosition' = PointerPosition(ex, ey, g_surface)
    /\ UNCHANGED <<globals, workerLocals, pcm, initialResolution, screen, time,
                   pendingResize, mousePressed, blitNow, doFlip, exitCode, joined>>

\* lines 490-491: SDL_MOUSEBUTTONUP
M_EvMouseUp ==
    /\ pcm = "poll"
    /\ ~ProcessGone
    /\ UNCHANGED shadingVars
    /\ mousePressed' = FALSE
    /\ UNCHANGED <<globals, workerLocals, pcm, initialResolution, screen, time,
                   mousePosition, pendingResize, blitNow, doFlip, exitCode, joined>>

\* lines 437, 497: SDL_PollEvent returns 0; bool doFlip = false
M_PollDone ==
    /\ pcm = "poll"
    /\ ~ProcessGone
    /\ UNCHANGED shadingVars
    /\ doFlip' = FALSE
    /\ pcm' = "lockHs"
    /\ UNCHANGED <<globals, workerLocals, initialResolution, screen, time,
                   mousePosition, pendingResize, mousePressed, blitNow,
                   exitCode, joined>>

\* line 499: ScopedLock lock(g_frameHandshakeMutex)
M_LockHs ==
    /\ pcm = "lockHs"
    /\ ~ProcessGone
    /\ UNCHANGED shadingVars
    /\ mutex = "free"
    /\ mutex' = "main"
    /\ pcm' = "hsTest"
    /\ UNCHANGED <<sandbox_time, sandbox_mouse, resolution, g_surface,
                   m_frameReceivedEvent, m_frameReadyEvent, g_frameReady,
                   g_cancelDraw, g_quit, workerLocals, initialResolution, screen,
                   time, mousePosition, pendingResize, mousePressed, blitNow,
                   doFlip, exitCode, joined>>

\* lines 500-507: quit: wake the worker if a frame is ready; end of the
\* critical section
M_HsQuit ==
    /\ pcm = "hsTest"
    /\ ~ProcessGone
    /\ UNCHANGED shadingVars
    /\ g_quit
    /\ m_frameReceivedEvent' =
         IF g_frameReady THEN SignalFrameReceived(pcw, m_frameReceivedEvent)
                         ELSE m_frameReceivedEvent
    /\ mutex' = "free"
    /\ pcm' = "after"
    /\ UNCHANGED <<sandbox_time, sandbox_mouse, resolution, g_surface,
                   m_frameReadyEvent, g_frameReady, g_cancelDraw, g_quit,
                   workerLocals, initialResolution, screen, time, mousePosition,
                   pendingResize, mousePressed, blitNow, doFlip, exitCode, joined>>

\* the consumption branch taken without the test of g_quit before it
M_HsConsume_IgnoresQuit ==
    /\ pcm = "hsTest"
    /\ ~ProcessGone
    /\ UNCHANGED shadingVars
    /\ blitNow \/ g_frameReady
    /\ pcm' = "blit"
    /\ UNCHANGED <<globals, workerLocals, initialResolution, screen, time,
                   mousePosition, pendingResize, mousePressed, blitNow, doFlip,
                   exitCode, joined>>

\* line 509: blitNow || g_frameReady short-circuits the timed wait
M_HsConsume ==
    /\ pcm = "hsTest"
    /\ ~ProcessGone
    /\ UNCHANGED shadingVars
    /\ ~g_quit
    /\ blitNow \/ g_frameReady
    /\ pcm' = "blit"
    /\ UNCHANGED <<globals, workerLocals, initialResolution, screen, time,
                   mousePosition, pendingResize, mousePressed, blitNow, doFlip,
                   exitCode, joined>>

\* line 509: SDL_CondWaitTimeout(m_frameReadyEvent, mutex, 33) releases the
\* mutex and blocks
M_HsWait ==
    /\ pcm = "hsTest"
    /\ ~ProcessGone
    /\ UNCHANGED shadingVars
    /\ ~g_quit
    /\ ~(blitNow \/ g_frameReady)
    /\ mutex' = "free"
    /\ m_frameReadyEvent' = FALSE
    /\ pcm' = "condWait"
    /\ UNCHANGED <<sandbox_time, sandbox_mouse, resolution, g_surface,
                   m_frameReceivedEvent, g_frameReady, g_cancelDraw, g_quit,
                   workerLocals, initialResolution, screen, time, mousePosition,
                   pendingResize, mousePressed, blitNow, doFlip, exitCode, joined>>

\* line 509: the wait returns 0 (signalled) with the mutex re-acquired
M_WaitSignalled ==
    /\ pcm = "condWait"
    /\ ~ProcessGone
    /\ UNCHANGED shadingVars
    /\ m_frameReadyEvent
    /\ mutex = "free"
    /\ mutex' = "main"
    /\ m_frameReadyEvent' = FALSE
    /\ pcm' = "blit"
    /\ UNCHANGED <<sandbox_time, sandbox_mouse, resolution, g_surface,
                   m_frameReceivedEvent, g_frameReady, g_cancelDraw, g_quit,
                   workerLocals, initialResolution, screen, time, mousePosition,
                   pendingResize, mousePressed, blitNow, doFlip, exitCode, joined>>

\* the result of the timed wait ignored: a time-out consumes as well
M_WaitTimeout_Consumes ==
    /\ pcm = "condWait"
    /\ ~ProcessGone
    /\ UNCHANGED shadingVars
    /\ mutex = "free"
    /\ mutex' = "main"
    /\ m_frameReadyEvent' = FALSE
    /\ pcm' = "blit"
    /\ UNCHANGED <<sandbox_time, sandbox_mouse, resolution, g_surface,
                   m_frameReceivedEvent, g_frameReady, g_cancelDraw, g_quit,
                   workerLocals, initialResolution, screen, time, mousePosition,
                   pendingResize, mousePressed, blitNow, doFlip, exitCode, joined>>

\* line 509: the wait times out (a signal arriving with the time-out is
\* eaten); the mutex is re-acquired, the condition is false, line 537 unlocks
M_WaitTimeout ==
    /\ pcm = "condWait"
    /\ ~ProcessGone
    /\ UNCHANGED shadingVars
    /\ mutex = "free"
    /\ m_frameReadyEvent' = FALSE
    /\ pcm' = "after"
    /\ UNCHANGED <<sandbox_time, sandbox_mouse, resolution, g_surface, mutex,
                   m_frameReceivedEvent, g_frameReady, g_cancelDraw, g_quit,
                   workerLocals, initialResolution, screen, time, mousePosition,
                   pendingResize, mousePressed, blitNow, doFlip, exitCode, joined>>

\* lines 511-512: doFlip = true; SDL_BlitSurface(g_surface, screen)
M_Blit ==
    /\ pcm = "blit"
    /\ ~ProcessGone
    /\ UNCHANGED shadingVars
    /\ doFlip' = TRUE
    /\ pcm' = "applyResize"
    /\ UNCHANGED <<globals, workerLocals, initialResolution, screen, time,
                   mousePosition, pendingResize, mousePressed, blitNow,
                   exitCode, joined>>

\* the cancellation flag reset as soon as the pending resize is applied
M_ApplyResize_ClearsCancel ==
    /\ pcm = "applyResize"
    /\ ~ProcessGone
    /\ UNCHANGED shadingVars
    /\ IF pendingResize
       THEN /\ g_surface' = <<screen[1], screen[2]>>
            /\ resolution' = screen
            /\ bmp' = IF bmp = "live" THEN "freed" ELSE bmp
            /\ pendingResize' = FALSE
            /\ g_cancelDraw' = FALSE
       ELSE UNCHANGED <<g_surface, resolution, bmp, pendingResize, g_cancelDraw>>
    /\ pcm' = "publish"
    /\ UNCHANGED <<sandbox_time, sandbox_mouse, mutex, m_frameReceivedEvent,
                   m_frameReadyEvent, g_frameReady, g_quit,
                   pcw, heightEnd, y, initialResolution, screen, time,
                   mousePosition, mousePressed, blitNow, doFlip, exitCode, joined>>

\* lines 514-518: the pending resize re-creates the framebuffer; when
\* SDL_CreateRGBSurface fails the throw unwinds the ScopedLock
M_ApplyResize ==
    /\ pcm = "applyResize"
    /\ ~ProcessGone
    /\ UNCHANGED shadingVars
    /\ IF pendingResize
       THEN \E ok \in BOOLEAN :
              IF ok
              THEN /\ g_surface' = NewSurface(screen[1], screen[2])
                   /\ resolution' = screen
                   /\ bmp' = FreedBmp(bmp)
                   /\ pendingResize' = FALSE
                   /\ pcm' = "publish"
                   /\ UNCHANGED mutex
              ELSE /\ g_surface' = Null
                   /\ bmp' = FreedBmp(bmp)
                   /\ mutex' = "free"
                   /\ Throw
                   /\ UNCHANGED <<resolution, pendingResize>>
       ELSE /\ pcm' = "publish"
            /\ UNCHANGED <<g_surface, resolution, bmp, pendingResize, mutex>>
    /\ UNCHANGED <<sandbox_time, sandbox_mouse, m_frameReceivedEvent,
                   m_frameReadyEvent, g_frameReady, g_cancelDraw, g_quit,
                   pcw, heightEnd, y, initialResolution, screen, time,
                   mousePosition, mousePressed, blitNow, doFlip, exitCode, joined>>

\* the publication not guarded against a forced preview
PublishCond_Always(blit, ready) == TRUE

\* line 527
PublishCond(blit, ready) == ~blit \/ ready
\* line 531: mousePosition / vec2(screen->w, screen->h), kept as the two
\* fractions <<numX, denX, numY, denY>>
Normalize(pos, scr) == <<pos[1], scr[1], pos[2], scr[2]>>

\* the release that forgets to reset g_frameReady
M_Publish_KeepsReady ==
    /\ pcm = "publish"
    /\ ~ProcessGone
    /\ UNCHANGED shadingVars
    /\ IF ~blitNow \/ g_frameReady
       THEN /\ sandbox_time' = time
            /\ sandbox_mouse' = <<mousePosition[1], screen[1], mousePosition[2], screen[2]>>
            /\ g_cancelDraw' = FALSE
            /\ m_frameReceivedEvent' = IF pcw = "blocked" THEN TRUE ELSE m_frameReceivedEvent
       ELSE UNCHANGED <<sandbox_time, sandbox_mouse, g_cancelDraw, m_frameReceivedEvent>>
    /\ mutex' = "free"
    /\ pcm' = "after"
    /\ UNCHANGED <<resolution, g_surface, m_frameReadyEvent, g_frameReady, g_quit,
                   workerLocals, initialResolution, screen, time, mousePosition,
                   pendingResize, mousePressed, blitNow, doFlip, exitCode, joined>>

\* lines 527-537: publish the globals, reset the flags, signal the worker;
\* the critical section ends
M_Publish ==
    /\ pcm = "publish"
    /\ ~ProcessGone
    /\ UNCHANGED shadingVars
    /\ IF PublishCond(blitNow, g_frameReady)
       THEN /\ sandbox_time' = time
            /\ sandbox_mouse' = Normalize(mousePosition, screen)
            /\ g_cancelDraw' = FALSE
            /\ g_frameReady' = FALSE
            /\ m_frameReceivedEvent' = SignalFrameReceived(pcw, m_frameReceivedEvent)
       ELSE UNCHANGED <<sandbox_time, sandbox_mouse, g_cancelDraw, g_frameReady,
                        m_frameReceivedEvent>>
    /\ mutex' = "free"
    /\ pcm' = "after"
    /\ UNCHANGED <<resolution, g_surface, m_frameReadyEvent, g_quit,
                   workerLocals, initialResolution, screen, time, mousePosition,
                   pendingResize, mousePressed, blitNow, doFlip, exitCode, joined>>

\* lines 539-551: flip, report, time += delta * timeScale; the iteration's
\* locals blitNow and doFlip go out of scope
M_After ==
    /\ pcm = "after"
    /\ ~ProcessGone
    /\ UNCHANGED shadingVars
    /\ \E delta \in 0..1 : time' = Min(time + delta, MaxTime)
    /\ blitNow' = FALSE
    /\ doFlip' = FALSE
    /\ pcm' = "loopTest"
    /\ UNCHANGED <<globals, workerLocals, initialResolution, screen,
                   mousePosition, pendingResize, mousePressed,
                   exitCode, joined>>

\* lines 553-555, 566-567: SDL_WaitThread returns once the worker has
\* returned; SDL_Quit; return 0
M_Join ==
    /\ pcm = "join"
    /\ ~ProcessGone
    /\ UNCHANGED shadingVars
    /\ pcw = "done"
    /\ joined' = TRUE
    /\ exitCode' = 0
    /\ pcm' = "returned"
    /\ UNCHANGED <<globals, workerLocals, initialResolution, screen, time,
                   mousePosition, pendingResize, mousePressed, blitNow, doFlip>>

\* lines 557-567: the catch handlers print the error; SDL_Quit; return 0
M_Catch ==
    /\ pcm = "catch"
    /\ ~ProcessGone
    /\ UNCHANGED shadingVars
    /\ exitCode' = 0
    /\ pcm' = "returned"
    /\ UNCHANGED <<globals, workerLocals, initialResolution, screen, time,
                   mousePosition, pendingResize, mousePressed, blitNow, doFlip,
                   joined>>

\* ------------------------------------------------------------ renderThread
\* lines 244, 257-259: bmp = g_surface.get(); heightStart = 0;
\* heightEnd = bmp->h.  A null g_surface (the re-creation failed and main is
\* on its way out) is dereferenced: the process dies.
W_Fetch ==
    /\ pcw = "fetch"
    /\ ~ProcessGone
    /\ UNCHANGED shadingVars
    /\ IF g_surface = Null
       THEN /\ pcw' = "crashed"
            /\ UNCHANGED <<bmp, heightEnd, y>>
       ELSE /\ bmp' = "live"
            /\ heightEnd' = g_surface[2]
            /\ y' = 0
            /\ pcw' = "check"
    /\ UNCHANGED <<globals, mainLocals>>

\* the loop condition without the poll of g_cancelDraw
ScanContinues_NoCancel(cancel, row, rowEnd) == row < rowEnd

\* line 269: the loop condition, g_cancelDraw read without the mutex
ScanContinues(cancel, row, rowEnd) == ~cancel /\ row < rowEnd

W_Check ==
    /\ pcw = "check"
    /\ ~ProcessGone
    /\ UNCHANGED shadingVars
    /\ pcw' = IF ScanContinues(g_cancelDraw, y, heightEnd) THEN "row" ELSE "lock"
    /\ UNCHANGED <<globals, mainLocals, bmp, heightEnd, y>>

\* lines 271-310 and the y += heightStep of line 269: one scanline is shaded
\* and stored through bmp.  Through a freed bmp the stores land in released
\* memory: they go unnoticed or the process dies.
W_Row ==
    /\ pcw = "row"
    /\ ~ProcessGone
    /\ UNCHANGED shadingVars
    /\ \/ /\ y' = y + 1
          /\ pcw' = "check"
       \/ /\ bmp = "freed"
          /\ pcw' = "crashed"
          /\ UNCHANGED y
    /\ UNCHANGED <<globals, mainLocals, bmp, heightEnd>>

\* line 314: ScopedLock lock(g_frameHandshakeMutex)
W_Lock ==
    /\ pcw = "lock"
    /\ ~ProcessGone
    /\ UNCHANGED shadingVars
    /\ mutex = "free"
    /\ mutex' = "worker"
    /\ pcw' = "hsQuit"
    /\ UNCHANGED <<sandbox_time, sandbox_mouse, resolution, g_surface,
                   m_frameReceivedEvent, m_frameReadyEvent, g_frameReady,
                   g_cancelDraw, g_quit, mainLocals, bmp, heightEnd, y>>

\* the producer handshake without the test of g_quit
W_HsQuit_NoTest ==
    /\ pcw = "hsQuit"
    /\ ~ProcessGone
    /\ UNCHANGED shadingVars
    /\ pcw' = "setReady"
    /\ UNCHANGED <<globals, mainLocals, bmp, heightEnd, y>>

\* lines 315-319: if (g_quit) return 0 (the ScopedLock unlocks)
W_HsQuit ==
    /\ pcw = "hsQuit"
    /\ ~ProcessGone
    /\ UNCHANGED shadingVars
    /\ IF g_quit
       THEN mutex' = "free" /\ pcw' = "done"
       ELSE UNCHANGED mutex /\ pcw' = "setReady"
    /\ UNCHANGED <<sandbox_time, sandbox_mouse, resolution, g_surface,
                   m_frameReceivedEvent, m_frameReadyEvent, g_frameReady,
                   g_cancelDraw, g_quit, mainLocals, bmp, heightEnd, y>>

\* lines 322-323: g_frameReady = true; SDL_CondSignal(m_frameReadyEvent)
W_SetReady ==
    /\ pcw = "setReady"
    /\ ~ProcessGone
    /\ UNCHANGED shadingVars
    /\ g_frameReady' = TRUE
    /\ m_frameReadyEvent' = SignalFrameReady(pcm, m_frameReadyEvent)
    /\ pcw' = "wait"
    /\ UNCHANGED <<sandbox_time, sandbox_mouse, resolution, g_surface, mutex,
                   m_frameReceivedEvent, g_cancelDraw, g_quit, mainLocals,
                   bmp, heightEnd, y>>

\* line 326: SDL_CondWait(m_frameReceivedEvent, mutex) releases the mutex and
\* blocks
W_Wait ==
    /\ pcw = "wait"
    /\ ~ProcessGone
    /\ UNCHANGED shadingVars
    /\ mutex' = "free"
    /\ m_frameReceivedEvent' = FALSE
    /\ pcw' = "blocked"
    /\ UNCHANGED <<sandbox_time, sandbox_mouse, resolution, g_surface,
                   m_frameReadyEvent, g_frameReady, g_cancelDraw, g_quit,
                   mainLocals, bmp, heightEnd, y>>

\* line 326: signalled, SDL_CondWait returns with the mutex re-acquired
W_Wake ==
    /\ pcw = "blocked"
    /\ ~ProcessGone
    /\ UNCHANGED shadingVars
    /\ m_frameReceivedEvent
    /\ mutex = "free"
    /\ mutex' = "worker"
    /\ m_frameReceivedEvent' = FALSE
    /\ pcw' = "woken"
    /\ UNCHANGED <<sandbox_time, sandbox_mouse, resolution, g_surface,
                   m_frameReadyEvent, g_frameReady, g_cancelDraw, g_quit,
                   mainLocals, bmp, heightEnd, y>>

\* lines 327-332: if (g_quit) return 0; otherwise the next frame; either way
\* the ScopedLock unlocks
W_Woken ==
    /\ pcw = "woken"
    /\ ~ProcessGone
    /\ UNCHANGED shadingVars
    /\ pcw' = IF g_quit THEN "done" ELSE "fetch"
    /\ mutex' = "free"
    /\ UNCHANGED <<sandbox_time, sandbox_mouse, resolution, g_surface,
                   m_frameReceivedEvent, m_frameReadyEvent, g_frameReady,
                   g_cancelDraw, g_quit, mainLocals, bmp, heightEnd, y>>

\* ------------------------------------------------------- sampler2D::sample
\* fixed-point reals: a real r is the integer r * Den
Den == 4 * GridPerQuarter
One == Den
Half == Den \div 2

\* elementwise functions of the vector library (GLSL semantics), on one
\* component
floor(a) == (a \div One) * One
mod(a, b) == a - (b * floor((a * One) \div b)) \div One
abs(a) == IF a < 0 THEN -a ELSE a
clamp(a, lo, hi) == IF a < lo THEN lo ELSE IF a > hi THEN hi ELSE a
step(edge, a) == IF a < edge THEN 0 ELSE One
mix(a, b, t) == (a * (One - t) + b * t) \div One

WrapModes == {"Clamp", "Repeat", "MirrorRepeat"}
Images == {Null} \cup ((1..MaxImage) \X (1..MaxImage))
Coords == ((-MaxWrap * Den)..((MaxWrap + 1) * Den))
              \X ((-MaxWrap * Den)..((MaxWrap + 1) * Den))

\* the wrap with C's fmod (sign of the dividend) in place of mod
WrapCoord_Fmod(mode, c) ==
    LET fmod(a, b) == IF a < 0 THEN -((-a) % b) ELSE a % b
    IN  CASE mode = "Repeat" -> <<fmod(c[1], One), fmod(c[2], One)>>
          [] mode = "MirrorRepeat" ->
                 <<abs(fmod(c[1] - One, 2 * One) - One),
                   abs(fmod(c[2] - One, 2 * One) - One)>>
          [] OTHER -> <<clamp(c[1], 0, One), clamp(c[2], 0, One)>>

\* lines 601-613: switch (m_wrapMode)
WrapCoord(mode, c) ==
    CASE mode = "Repeat" -> <<mod(c[1], One), mod(c[2], One)>>
      [] mode = "MirrorRepeat" ->
             <<abs(mod(c[1] - One, 2 * One) - One),
               abs(mod(c[2] - One, 2 * One) - One)>>
      [] OTHER -> <<clamp(c[1], 0, One), clamp(c[2], 0, One)>>

\* line 616: uv.y = 1 - uv.y
FlipV(u) == <<u[1], One - u[2]>>

\* the checkers with the two colours of the mix exchanged
Checkers_Swapped(u) ==
    LET s == <<step(Half, u[1]), step(Half, u[2])>>
        m2 == abs(s[1] - s[2])
        red == <<One, 0, 0, One>>
        green == <<0, One, 0, One>>
    IN  [i \in 1..4 |-> mix(green[i], red[i], m2)]

\* lines 621-623: s = step(0.5f, uv); m2 = abs(s.x - s.y);
\* mix(vec4(1, 0, 0, 1), vec4(0, 1, 0, 1), m2)
Checkers(u) ==
    LET s == <<step(Half, u[1]), step(Half, u[2])>>
        m2 == abs(s[1] - s[2])
        red == <<One, 0, 0, One>>
        green == <<0, One, 0, One>>
    IN  [i \in 1..4 |-> mix(red[i], green[i], m2)]

\* lines 635-636: x = uint(uv.x * (w - 1) + 0.5), y likewise; lines 638-681
\* return the colour stored at that texel, here the texel itself
FetchTexel(image, u) ==
    <<"texel", (2 * u[1] * (image[1] - 1) + One) \div (2 * One),
               (2 * u[2] * (image[2] - 1) + One) \div (2 * One)>>

\* lines 597-682 as a function of the fields and the argument
sample(mode, image, c) ==
    LET u == FlipV(WrapCoord(mode, c))
    IN  IF image = Null THEN Checkers(u) ELSE FetchTexel(image, u)

\* a call of sample on any sampler and coordinate
SamplerCall ==
    /\ pcs = "call"
    /\ m_wrapMode \in WrapModes
    /\ m_image \in Images
    /\ coord \in Coords
    /\ uv = <<0, 0>>
    /\ sampled = Null

S_Wrap ==
    /\ pcs = "call"
    /\ uv' = WrapCoord(m_wrapMode, coord)
    /\ pcs' = "wrapped"
    /\ UNCHANGED <<globals, mainLocals, workerLocals, rowVars, quantVars, m_wrapMode,
                   m_image, coord, sampled>>

S_Flip ==
    /\ pcs = "wrapped"
    /\ uv' = FlipV(uv)
    /\ pcs' = "flipped"
    /\ UNCHANGED <<globals, mainLocals, workerLocals, rowVars, quantVars, m_wrapMode,
                   m_image, coord, sampled>>

S_Checkers ==
    /\ pcs = "flipped"
    /\ m_image = Null
    /\ sampled' = Checkers(uv)
    /\ pcs' = "returned"
    /\ UNCHANGED <<globals, mainLocals, workerLocals, rowVars, quantVars, m_wrapMode,
                   m_image, coord, uv>>

S_Fetch ==
    /\ pcs = "flipped"
    /\ m_image # Null
    /\ sampled' = FetchTexel(m_image, uv)
    /\ pcs' = "returned"
    /\ UNCHANGED <<globals, mainLocals, workerLocals, rowVars, quantVars, m_wrapMode,
                   m_image, coord, uv>>

SamplerNext == S_Wrap \/ S_Flip \/ S_Checkers \/ S_Fetch

SamplerInit == ProgramInit /\ SamplerCall /\ RowIdle /\ QuantIdle

SamplerSpec == SamplerInit /\ [][SamplerNext]_vars

\* ------------------------------------------- renderThread: one row
\* line 273 and the entry of the loop of line 276, for any width of the
\* framebuffer and any lane width
RowStart ==
    /\ pcr = "test"
    /\ scalar_count \in 1..MaxLanes
    /\ bmp_w \in 1..MaxRowWidth
    /\ x = 0
    /\ ptr = 0
    /\ stored = {}
    /\ storeCount = <<>>

\* line 275
limitX == bmp_w - scalar_count

\* line 276: x < bmp->w
R_Test ==
    /\ pcr = "test"
    /\ pcr' = IF x < bmp_w THEN "shift" ELSE "done"
    /\ UNCHANGED <<globals, mainLocals, workerLocals, samplerVars, quantVars,
                   scalar_count, bmp_w, x, ptr, stored, storeCount>>

\* the shift of x without the shift of ptr
R_Shift_KeepsPtr ==
    /\ pcr = "shift"
    /\ x' = IF x > limitX THEN limitX ELSE x
    /\ pcr' = "store"
    /\ UNCHANGED <<globals, mainLocals, workerLocals, samplerVars, quantVars,
                   scalar_count, bmp_w, ptr, stored, storeCount>>

\* lines 282-286: the batch is shifted left
R_Shift ==
    /\ pcr = "shift"
    /\ IF x > limitX
       THEN /\ ptr' = ptr - 3 * (x - limitX)
            /\ x' = limitX
       ELSE UNCHANGED <<ptr, x>>
    /\ pcr' = "store"
    /\ UNCHANGED <<globals, mainLocals, workerLocals, samplerVars, quantVars,
                   scalar_count, bmp_w, stored, storeCount>>

\* lines 288-309 and the x += scalar_count of line 276: the batch is shaded
\* and its 3 * scalar_count bytes are stored through ptr
R_Store ==
    /\ pcr = "store"
    /\ stored' = stored \cup (ptr..(ptr + 3 * scalar_count - 1))
    /\ storeCount' =
         [o \in stored' |->
             (IF o \in stored THEN storeCount[o] ELSE 0)
             + (IF o \in ptr..(ptr + 3 * scalar_count - 1) THEN 1 ELSE 0)]
    /\ ptr' = ptr + 3 * scalar_count
    /\ x' = x + scalar_count
    /\ pcr' = "test"
    /\ UNCHANGED <<globals, mainLocals, workerLocals, samplerVars, quantVars,
                   scalar_count, bmp_w>>

RowNext == R_Test \/ R_Shift \/ R_Store

RowInit == ProgramInit /\ SamplerIdle /\ RowStart /\ QuantIdle

RowSpec == RowInit /\ [][RowNext]_vars

\* the worker, shading a row, keeps taking steps
RowFairSpec == RowSpec /\ WF_vars(RowNext)

\* ------------------------------- renderThread: the colour conversion
\* the values a channel of gl_FragColor may have after shader(): any real of
\* the grid in [-1, 2]
Channels == (-One)..(2 * One)

\* line 293: the shader has returned, with any colour
QuantStart ==
    /\ pcq = "shaded"
    /\ gl_FragColor \in Channels \X Channels \X Channels
    /\ color = <<0, 0, 0>>
    /\ pixel = <<0, 0, 0>>

\* line 296: color = clamp(shader.gl_FragColor, c_zero, c_one)
Q_Clamp ==
    /\ pcq = "shaded"
    /\ color' = [i \in 1..3 |-> 2 * clamp(gl_FragColor[i], 0, One)]
    /\ pcq' = "clamped"
    /\ UNCHANGED <<globals, mainLocals, workerLocals, samplerVars, rowVars,
                   gl_FragColor, pixel>>

\* line 297: color *= 255 + 0.5f, the factor being 255.5 = (2 * 255 + 1) / 2
Q_Scale ==
    /\ pcq = "clamped"
    /\ color' = [i \in 1..3 |-> (color[i] * (2 * 255 + 1)) \div 2]
    /\ pcq' = "scaled"
    /\ UNCHANGED <<globals, mainLocals, workerLocals, samplerVars, rowVars,
                   gl_FragColor, pixel>>

\* lines 300-308: the channels truncated to unsigned, then to uint8_t
Q_Store ==
    /\ pcq = "scaled"
    /\ pixel' = [i \in 1..3 |-> (color[i] \div (2 * One)) % 256]
    /\ pcq' = "stored"
    /\ UNCHANGED <<globals, mainLocals, workerLocals, samplerVars, rowVars,
                   gl_FragColor, color>>

QuantNext == Q_Clamp \/ Q_Scale \/ Q_Store

QuantInit == ProgramInit /\ SamplerIdle /\ RowIdle /\ QuantStart

QuantSpec == QuantInit /\ [][QuantNext]_vars

\* ---------------------------------------------------------- specification
Startup ==
    \/ M_ParseArgs
    \/ M_SdlInit
    \/ M_CreateScreen
    \/ M_CreateSurface
    \/ M_CreateThread

Events ==
    \/ M_EvResize
    \/ M_EvResizeLocked
    \/ M_EvQuit
    \/ M_EvQuitLocked
    \/ M_EvSpace
    \/ M_PollDone

\* the pointer events, left to MouseSpec: they touch mousePosition and
\* mousePressed only
PointerEvents ==
    \/ M_EvMouseDown
    \/ M_EvMouseMotion
    \/ M_EvMouseUp

Display ==
    \/ M_LoopTest
    \/ M_LockHs
    \/ M_HsQuit
    \/ M_HsConsume
    \/ M_HsWait
    \/ M_WaitSignalled
    \/ M_WaitTimeout
    \/ M_Blit
    \/ M_ApplyResize
    \/ M_Publish
    \/ M_After
    \/ M_Join
    \/ M_Catch

Worker ==
    \/ W_Fetch
    \/ W_Check
    \/ W_Row
    \/ W_Lock
    \/ W_HsQuit
    \/ W_SetReady
    \/ W_Wait
    \/ W_Wake
    \/ W_Woken

Next == Startup \/ Events \/ Display \/ Worker

Spec == Init /\ [][Next]_vars

\* scheduling: each thread that can take a step of its own eventually takes
\* one; a thread contending for the mutex eventually gets it, the mutex
\* being free again and again (the timed wait of main releases it for 33 ms
\* and the worker blocks after each frame); SDL_PollEvent eventually finds
\* the event queue empty
MainProgress ==
    \/ Startup
    \/ M_LoopTest
    \/ M_HsQuit
    \/ M_HsConsume
    \/ M_HsWait
    \/ M_WaitTimeout
    \/ M_Blit
    \/ M_ApplyResize
    \/ M_Publish
    \/ M_After
    \/ M_Join
    \/ M_Catch

WorkerProgress ==
    \/ W_Fetch
    \/ W_Check
    \/ W_Row
    \/ W_HsQuit
    \/ W_SetReady
    \/ W_Wait
    \/ W_Woken

Fairness ==
    /\ WF_vars(MainProgress)
    /\ WF_vars(WorkerProgress)
    /\ SF_vars(M_PollDone)
    /\ SF_vars(M_LockHs)
    /\ SF_vars(M_EvQuitLocked)
    /\ SF_vars(M_EvResizeLocked)
    /\ SF_vars(W_Lock)
    /\ SF_vars(W_Wake)

FairSpec == Spec /\ Fairness

MouseNext == Next \/ PointerEvents

MouseSpec == Init /\ [][MouseNext]_vars

\* the startup from every argument, followed up to the worker's first scan
ArgsNext ==
    \/ M_ParseAnyArgs
    \/ M_SdlInit
    \/ M_CreateScreen
    \/ M_CreateSurface
    \/ M_CreateThread
    \/ M_Catch
    \/ W_Fetch
    \/ W_Check
    \/ W_Row

ArgsSpec == Init /\ [][ArgsNext]_vars

\* ================================================================ claims
\* the worker is in its scan loop, between the fetch of bmp and the end of
\* the last scanline
InScanLoop == pcw \in ScanPcs
\* main is in its consumption window: it has decided to consume and has
\* not yet ended the critical section
InWindow == pcm \in WindowPcs
\* the window is a forced preview of a frame that is not ready
ForcedNotReady == blitNow /\ ~g_frameReady
\* the step is the consumer release of lines 527-535
ReleaseStep == pcm = "publish" /\ pcm' = "after" /\ (~blitNow \/ g_frameReady)

\* the step is the worker's ready event of lines 322-323
ReadyStep == pcw = "setReady" /\ pcw' = "wait"

\* C1, as claimed: the render worker is never in its scan loop while the
\* consumer is inside its consumption window, forced previews included.
C1_MutualExclusion == ~(pcw \in {"check", "row"} /\ InWindow)

\* C1, amended: the render worker is never in its scan loop while the
\* consumer is inside a consumption window it entered because it saw
\* g_frameReady or because its timed wait succeeded; only the forced preview
\* of a frame that is not ready overlaps the scan.
C1_MutualExclusionUnforced == (InWindow /\ ~ForcedNotReady) => ~InScanLoop

\* a window entered after a successful timed wait, the worker blocked
C1_Witness ==
    /\ pcm = "blit" /\ ~blitNow /\ g_frameReady
    /\ pcw = "blocked" /\ mutex = "main"

\* C2: whenever g_frameReady is true the worker is not in its scan loop: it
\* is entering or blocked in the wait for the consumption, has been woken
\* for quit, or has terminated.
C2_ReadyMeansNotScanning ==
    g_frameReady =>
        \/ pcw \in {"wait", "blocked", "done"}
        \/ pcw = "woken" /\ g_quit

\* a ready frame whose worker has been woken for quit
C2_Witness == g_frameReady /\ pcw = "woken" /\ g_quit

\* C3: once g_cancelDraw is set while the worker is scanning, it stays set
\* until the worker has left the scan loop, the worker starts no scanline
\* after the one in progress, and its poll leads directly to the producer
\* handshake, leaving the remaining scanlines undrawn.
C3_Cancellation ==
    [][ (g_cancelDraw /\ InScanLoop) =>
          /\ g_cancelDraw'
          /\ pcw # "row" => pcw' # "row"
          /\ (pcw = "check" /\ pcw' # pcw) => (pcw' = "lock" /\ y' = y)
      ]_vars

\* the worker at the handshake after a resize cancelled its frame with a
\* scanline drawn and a scanline left
C3_Witness ==
    /\ pcw = "lock" /\ 0 < y /\ y < heightEnd
    /\ g_cancelDraw /\ pendingResize /\ ~g_quit

\* C4: a resize request sets g_cancelDraw; g_cancelDraw goes from true to
\* false only in the consumer release step, which also clears g_frameReady
\* and signals the blocked worker, and every release leaves it false: one
\* true-to-false transition per handshake cycle with a resize, never by the
\* worker.
C4_CancelClearedOncePerCycle ==
    [][ /\ (pcm = "resizeLock" /\ pcm' = "poll") => g_cancelDraw'
        /\ (g_cancelDraw /\ ~g_cancelDraw') =>
              /\ ReleaseStep
              /\ g_frameReady /\ ~g_frameReady'
              /\ pcw = "blocked" /\ pcw' = pcw /\ m_frameReceivedEvent'
        /\ ReleaseStep => ~g_cancelDraw'
      ]_vars

\* a release about to clear the g_cancelDraw that a resize of this cycle set
C4_Witness ==
    /\ pcm = "publish" /\ g_cancelDraw /\ g_frameReady
    /\ pcw = "blocked" /\ y < heightEnd

\* C5, as claimed: once quit has been requested the run ends only with the
\* worker returned and joined: main never leaves main() with g_quit set and
\* the worker not joined.
C5_QuitEndsJoined == (pcm = "returned" /\ g_quit) => (pcw = "done" /\ joined)

\* C6: while main is in the window of a forced preview of a frame that is
\* not ready, the blit happens and no step changes glsl_sandbox::time,
\* glsl_sandbox::mouse, g_frameReady or g_cancelDraw or signals
\* m_frameReceivedEvent; a forced preview of a ready frame ends with the
\* normal release: globals published, both flags cleared, worker signalled.
C6_ForcedPreview ==
    [][ /\ (InWindow /\ ForcedNotReady) =>
              /\ UNCHANGED <<sandbox_time, sandbox_mouse, g_frameReady,
                             g_cancelDraw, m_frameReceivedEvent>>
              /\ (pcm = "blit" /\ pcm' # pcm) => doFlip'
        /\ (pcm = "publish" /\ pcm' # pcm /\ blitNow /\ g_frameReady) =>
              /\ sandbox_time' = time
              /\ sandbox_mouse' = <<mousePosition[1], screen[1],
                                    mousePosition[2], screen[2]>>
              /\ ~g_frameReady' /\ ~g_cancelDraw'
              /\ pcw = "blocked" /\ m_frameReceivedEvent'
      ]_vars

\* a forced preview of a frame that was not ready has ended: the blit is
\* done, the worker is still drawing, the cancellation of a resize and the
\* stale globals are as they were
C6_Witness ==
    /\ pcm = "after" /\ doFlip /\ blitNow
    /\ pcw = "row" /\ g_cancelDraw /\ ~g_frameReady
    /\ sandbox_time # time

\* C7: glsl_sandbox::time and glsl_sandbox::mouse are written only by the
\* consumer release step of main, with the mutex held and the worker outside
\* its scan loop; no step taken while the worker is in its scan loop
\* changes them.
C7_StableSnapshot ==
    [][ /\ (sandbox_time' # sandbox_time \/ sandbox_mouse' # sandbox_mouse)
              => ReleaseStep
        /\ ReleaseStep => (mutex = "main" /\ ~InScanLoop)
        /\ InScanLoop => UNCHANGED <<sandbox_time, sandbox_mouse>>
      ]_vars

\* the worker shading a frame with a published snapshot older than the
\* local time of main
C7_Witness == pcw = "row" /\ sandbox_time = 0 /\ time # sandbox_time

\* C8: a worker that finds g_quit set at the producer handshake terminates
\* without setting g_frameReady and without signalling m_frameReadyEvent,
\* and g_frameReady never goes from false to true while g_quit is set.
C8_ProducerQuit ==
    [][ /\ (pcw = "hsQuit" /\ g_quit /\ pcw' # pcw) =>
              /\ pcw' = "done"
              /\ UNCHANGED <<g_frameReady, m_frameReadyEvent>>
        /\ (g_quit /\ ~g_frameReady) => ~g_frameReady'
      ]_vars

\* the worker has returned from the handshake of a frame that quit cancelled
C8_Witness ==
    /\ pcw = "done" /\ g_quit /\ ~g_frameReady
    /\ bmp = "live" /\ y < heightEnd /\ ~pendingResize

\* C9: once g_quit is set main never enters the consumption window or the
\* timed wait: no blit, no framebuffer re-creation, no publication, no flag
\* cleared; at the handshake it only signals m_frameReceivedEvent, and only
\* when g_frameReady is true, and after it the loop is left for the join.
C9_ConsumerQuit ==
    [][ g_quit =>
          /\ pcm' \notin WindowPcs \cup {"condWait"}
          /\ ~doFlip'
          /\ UNCHANGED <<g_surface, resolution, sandbox_time, sandbox_mouse,
                         g_frameReady, g_cancelDraw, g_quit>>
          /\ (pcm = "hsTest" /\ pcm' # pcm) =>
                /\ pcm' = "after"
                /\ m_frameReceivedEvent' =
                     (m_frameReceivedEvent \/ (g_frameReady /\ pcw = "blocked"))
          /\ pcm \in {"after", "loopTest", "join"} =>
                pcm' \in {"after", "loopTest", "join", "returned"}
      ]_vars

\* quit with a frame ready and a preview and a resize pending: main has
\* signalled the blocked worker and done nothing else
C9_Witness ==
    /\ g_quit /\ pcm = "after" /\ g_frameReady /\ m_frameReceivedEvent
    /\ blitNow /\ pendingResize /\ pcw = "blocked"

\* C10, as claimed: after the worker has been started main returns only
\* with quit requested and the worker joined.
C10_OrderlyShutdown ==
    (pcm = "returned" /\ pcw # "notStarted") => (g_quit /\ joined)

\* C11, as claimed: once a resize has been requested glsl_sandbox::resolution
\* is already the requested size, before any consumption.
C11_ResolutionImmediate ==
    (pcm = "poll" /\ pendingResize) => resolution = screen

\* C11, amended: the resize handler leaves glsl_sandbox::resolution alone;
\* after startup it changes only when the consumption step applies the
\* pending resize, with the mutex held, to the size of the screen and of the
\* framebuffer created by the same step.
C11_ResolutionDeferred ==
    [][ /\ pcm \in {"poll", "resizeLock"} => resolution' = resolution
        /\ (resolution' # resolution /\ pcm # "createSurface") =>
              /\ pcm = "applyResize" /\ pendingResize /\ mutex = "main"
              /\ resolution' = screen /\ g_surface' = resolution'
              /\ ~pendingResize'
      ]_vars

\* a consumption has applied a resize requested earlier: the resolution is
\* the new size of the screen
C11_Witness ==
    /\ pcm = "publish" /\ ~pendingResize
    /\ resolution = screen /\ resolution # initialResolution

\* C12, as claimed: every value of glsl_sandbox::mouse lies in [0,1] x [0,1],
\* whatever the resize events, pointer events inside the window and
\* consumptions before it.
C12_MouseInUnitSquare ==
    /\ 0 <= sandbox_mouse[1] /\ sandbox_mouse[1] <= sandbox_mouse[2]
    /\ 0 <= sandbox_mouse[3] /\ sandbox_mouse[3] <= sandbox_mouse[4]

\* C13: an argument that fails to parse, or parses to a width <= 0 or a
\* height < 0, makes main return 1 with the screen, the framebuffer and the
\* worker not created; any other argument starts up with that resolution and
\* no argument starts up with 128x128; nothing is ever created from an
\* invalid resolution or by a run that returns 1.
C13_ArgumentValidation ==
    [][ /\ \A arg \in Args : M_ParseArgsFrom({arg}) =>
              IF arg = BadArg
              THEN /\ pcm' = "returned" /\ exitCode' = 1
                   /\ screen' = Null /\ g_surface' = Null /\ pcw' = "notStarted"
              ELSE IF arg = NoArg
              THEN pcm' = "sdlInit" /\ initialResolution' = <<128, 128>>
              ELSE IF arg[1] <= 0 \/ arg[2] < 0
              THEN /\ pcm' = "returned" /\ exitCode' = 1
                   /\ screen' = Null /\ g_surface' = Null /\ pcw' = "notStarted"
              ELSE pcm' = "sdlInit" /\ initialResolution' = arg
        /\ (screen' # Null \/ g_surface' # Null \/ pcw' # "notStarted") =>
              /\ pcm # "parse" /\ exitCode' # 1
              /\ initialResolution[1] > 0 /\ initialResolution[2] >= 0
      ]_vars

\* a width accepted with a negative height: main has returned 1 with nothing
\* created
C13_Witness ==
    /\ pcm = "returned" /\ exitCode = 1
    /\ initialResolution[1] > 0 /\ initialResolution[2] < 0
    /\ screen = Null /\ g_surface = Null /\ pcw = "notStarted"

\* integer shifts of a coordinate
Shifts == (-MaxWrap)..MaxWrap

\* C14: in Repeat mode the wrapped coordinate lies in [0,1) on both axes,
\* and the value returned for coord is the value sample returns for
\* coord + k, for every integer k on either axis.
C14_RepeatPeriodic ==
    m_wrapMode = "Repeat" =>
        /\ pcs = "wrapped" =>
              /\ 0 <= uv[1] /\ uv[1] < One
              /\ 0 <= uv[2] /\ uv[2] < One
        /\ pcs = "returned" =>
              \A kx, ky \in Shifts :
                  sample(m_wrapMode, m_image,
                         <<coord[1] + kx * One, coord[2] + ky * One>>) = sampled

\* a Repeat sample of an image returned for a coordinate that is negative
\* and fractional on x and above 1 on y
C14_Witness ==
    /\ pcs = "returned" /\ m_wrapMode = "Repeat" /\ m_image # Null
    /\ coord[1] < 0 /\ coord[1] % One # 0 /\ coord[2] > One
    /\ m_image[1] > 1

\* C15: in MirrorRepeat mode the wrapped coordinate is
\* abs(((coord - 1) mod 2) - 1) on both axes, and the value returned for
\* coord is the value sample returns for 2 - coord, reflected on either axis
\* or on both, negative coordinates and coordinates above 2 included.
C15_MirrorReflective ==
    m_wrapMode = "MirrorRepeat" =>
        /\ pcs = "wrapped" =>
              \A i \in 1..2 :
                  LET m == (coord[i] - One) % (2 * One)
                  IN  uv[i] = IF m < One THEN One - m ELSE m - One
        /\ pcs = "returned" =>
              /\ sample(m_wrapMode, m_image,
                        <<2 * One - coord[1], coord[2]>>) = sampled
              /\ sample(m_wrapMode, m_image,
                        <<coord[1], 2 * One - coord[2]>>) = sampled
              /\ sample(m_wrapMode, m_image,
                        <<2 * One - coord[1], 2 * One - coord[2]>>) = sampled

\* a MirrorRepeat sample of an image returned for a coordinate that is
\* negative and fractional on x and above 2 on y
C15_Witness ==
    /\ pcs = "returned" /\ m_wrapMode = "MirrorRepeat" /\ m_image # Null
    /\ coord[1] < 0 /\ coord[1] % One # 0 /\ coord[2] > 2 * One
    /\ m_image[1] > 1 /\ m_image[2] > 1

\* C16: with no image loaded sample returns exactly red (1,0,0,1) or green
\* (0,1,0,1): red where the two components of the vertically flipped
\* coordinate are on the same side of 0.5, green otherwise; the flipped
\* coordinates (0.25, 0.25) and (0.75, 0.75) give red, (0.25, 0.75) and
\* (0.75, 0.25) give green, the flipped coordinate being (u, 1 - v) of the
\* wrapped coordinate (u, v).
C16_CheckerboardFallback ==
    (m_image = Null /\ pcs = "returned") =>
        LET q == One \div 4
            wrapped == WrapCoord(m_wrapMode, coord)
        IN  /\ sampled \in {<<4 * q, 0, 0, 4 * q>>, <<0, 4 * q, 0, 4 * q>>}
            /\ sampled = <<4 * q, 0, 0, 4 * q>> <=>
                    ((uv[1] < 2 * q) <=> (uv[2] < 2 * q))
            /\ uv \in {<<q, q>>, <<3 * q, 3 * q>>} =>
                    sampled = <<4 * q, 0, 0, 4 * q>>
            /\ uv \in {<<q, 3 * q>>, <<3 * q, q>>} =>
                    sampled = <<0, 4 * q, 0, 4 * q>>
            /\ uv = <<wrapped[1], 4 * q - wrapped[2]>>

\* the fallback returned green for the flipped coordinate (0.25, 0.75), that
\* is for the coordinate (0.25, 0.25) of a Clamp sampler
C16_Witness ==
    /\ pcs = "returned" /\ m_image = Null /\ m_wrapMode = "Clamp"
    /\ 4 * coord[1] = One /\ 4 * coord[2] = One
    /\ 4 * uv[1] = One /\ 4 * uv[2] = 3 * One
    /\ sampled = <<0, One, 0, One>>

\* C17: g_frameReady starts false and changes only in a ready event of the
\* worker, which finds it false and sets it, and in a release of the
\* consumer, which finds it true, clears it and signals the blocked worker:
\* ready events and releases alternate strictly, starting with a ready
\* event.
C17_Alternation ==
    [][ /\ ReadyStep => (~g_frameReady /\ g_frameReady')
        /\ ReleaseStep =>
              /\ g_frameReady /\ ~g_frameReady'
              /\ pcw = "blocked" /\ m_frameReceivedEvent'
        /\ (g_frameReady' # g_frameReady) => (ReadyStep \/ ReleaseStep)
        /\ pcw = "notStarted" => ~g_frameReady
      ]_vars

\* the second ready event: a frame is ready after a release has published
\* the time 0
C17_Witness ==
    /\ g_frameReady /\ pcw = "blocked"
    /\ sandbox_time = 0 /\ ~g_quit

\* C18, as claimed: while quit is not requested, under fair scheduling a
\* frame the worker has marked ready is eventually consumed and the worker
\* starts the next scan.
C18_NoLostWakeup ==
    (g_frameReady /\ ~g_quit) ~> (g_quit \/ (~g_frameReady /\ InScanLoop))

\* C19, as claimed: the framebuffer is never replaced while the worker is in
\* its scan loop with the pointer it fetched at the start of the frame: the
\* worker never scans through a bmp whose surface has been freed, forced
\* previews with a resize pending included.
C19_ReplacedOnlyWhileBlocked ==
    ~(bmp = "freed" /\ pcw \in {"check", "row"})

\* C20, as claimed: for every width w >= 1 and lane width N >= 1 every batch
\* starts at an x in [0, w - N] and stores exactly the 3 * N bytes of the
\* pixels x..x+N-1, and no byte is stored before the start or past the end
\* of the row's w pixels.
C20_BatchInsideRow ==
    /\ pcr = "store" =>
          /\ 0 <= x /\ x <= bmp_w - scalar_count
          /\ ptr = 3 * x
    /\ stored \subseteq 0..(3 * bmp_w - 1)

\* the byte offsets stored more than once so far
StoredAgain == {o \in stored : storeCount[o] > 1}

\* C21: for every width w and lane width N with w >= N the row loop
\* terminates; when it has, every byte of every pixel x in [0, w) has been
\* stored; no byte is ever stored more than twice, the bytes stored twice
\* are bytes of the last N pixels; at the end they are the bytes of N - w mod
\* N pixels (at most N - 1) when N does not divide w, and none when it does.
C21_RowCoverage ==
    /\ [](bmp_w >= scalar_count =>
            /\ \A o \in stored : storeCount[o] <= 2
            /\ StoredAgain \subseteq (3 * (bmp_w - scalar_count))..(3 * bmp_w - 1)
            /\ Cardinality(StoredAgain) <= 3 * (scalar_count - 1)
            /\ bmp_w % scalar_count = 0 => StoredAgain = {}
            /\ pcr = "done" =>
                  /\ stored = 0..(3 * bmp_w - 1)
                  /\ bmp_w % scalar_count # 0 =>
                        Cardinality(StoredAgain) =
                            3 * (scalar_count - (bmp_w % scalar_count)))
    /\ (bmp_w >= scalar_count) ~> (pcr = "done")

\* a row whose width is not a multiple of the lane width is finished: its
\* last batch was shifted left over pixels already stored
C21_Witness ==
    /\ pcr = "done" /\ bmp_w > scalar_count /\ bmp_w % scalar_count = 2
    /\ stored = 0..(3 * bmp_w - 1)
    /\ Cardinality(StoredAgain) = 3 * (scalar_count - 2)
    /\ StoredAgain # {}

\* C22, as claimed: every byte stored is floor(clamp(c, 0, 1) * 255 + 0.5)
\* of the channel c the shader produced, and lies in 0..255.
C22_Quantization ==
    pcq = "stored" =>
        \A i \in 1..3 :
            LET c == gl_FragColor[i]
                clamped == IF c < 0 THEN 0 ELSE IF c > One THEN One ELSE c
            IN  /\ pixel[i] = (2 * 255 * clamped + One) \div (2 * One)
                /\ pixel[i] \in 0..255

=============================================================================
